---------------------------- MODULE Spec2Model ----------------------------
(***************************************************************************)
(* SignalScout: the scan pipeline (app/pipeline.py, scorer.py), the SQLite *)
(* persistence layer (database.py) and the start-scan endpoint             *)
(* (app/app.py), as one state machine.                                     *)
(*                                                                         *)
(* Conventions.                                                            *)
(*  - Scores are kept in tenths: the Python value 7.0 is the integer 70.   *)
(*    round(x, 1) is round-half-even on the exact rational value.          *)
(*  - A Python str is a tuple of one-character strings.                    *)
(*  - None / SQL NULL is the string "NULL" for text columns and the pair   *)
(*    has_ai = FALSE for the numeric ai_score.                             *)
(*  - A database call is one atomic step: it either commits and returns,   *)
(*    or raises having written nothing (sqlite3 rolls the statement back). *)
(*  - Console output (print) and threading.Thread.start() do not raise.    *)
(***************************************************************************)
EXTENDS Integers, Sequences, FiniteSets, TLC

(***************************************************************************)
(* Bounds of the model.                                                    *)
(***************************************************************************)
\* number of POST /api/scan requests issued by clients
MaxRequests == 2
\* number of PATCH /api/leads/{id} requests issued by the user
MaxUserUpdates == 1
\* length of the longest list handed to deduplicate on its own
MaxDedupLen == 4
\* length of the longest list of raw signals scored on its own
MaxRaw == 3

(***************************************************************************)
(* Generic helpers.                                                        *)
(***************************************************************************)
Min(a, b) == IF a <= b THEN a ELSE b

Max(a, b) == IF a >= b THEN a ELSE b

\* Python list slice xs[:n] for n >= 0
Take(xs, n) == SubSeq(xs, 1, Min(n, Len(xs)))

\* Python round(n/d, 0) for d > 0: round half to even
RoundHalfEven(n, d) ==
    LET q == n \div d
        r == n % d
    IN  IF 2 * r < d THEN q
        ELSE IF 2 * r > d THEN q + 1
        ELSE IF q % 2 = 0 THEN q ELSE q + 1

(***************************************************************************)
(* Text: str.lower(), the substring test `kw in text`, re.sub and strip.   *)
(***************************************************************************)
UpperChars == {"A", "B", "C"}

LowerChars == {"a", "b", "c", "x", "n"}

DigitChars == {"0", "1"}

\* str.lower() on one character
LowerChar(c) ==
    CASE c = "A" -> "a"
      [] c = "B" -> "b"
      [] c = "C" -> "c"
      [] OTHER -> c

Lower(text) == [i \in 1..Len(text) |-> LowerChar(text[i])]

\* Python `kw in text` on strings: kw occurs as a contiguous substring
Contains(text, kw) ==
    \E i \in 0..(Len(text) - Len(kw)) :
        \A j \in 1..Len(kw) : text[i + j] = kw[j]

\* the characters the pattern [^a-z0-9 ] leaves in place
KeptByPattern(c) == c \in LowerChars \cup DigitChars \cup {" "}

\* str.strip() where the only whitespace left is the blank
RECURSIVE LStrip(_)
LStrip(text) ==
    IF text # <<>> /\ Head(text) = " " THEN LStrip(Tail(text)) ELSE text

RECURSIVE RStrip(_)
RStrip(text) ==
    IF text # <<>> /\ text[Len(text)] = " "
    THEN RStrip(SubSeq(text, 1, Len(text) - 1))
    ELSE text

Strip(text) == RStrip(LStrip(text))

\* re.sub(r'[^a-z0-9 ]', '', text.lower()).strip()
_normalize(text) == Strip(SelectSeq(Lower(text), KeptByPattern))


(***************************************************************************)
(* Stable descending sort: list.sort(key=Key, reverse=True).  Python's     *)
(* sort keeps the input order of elements with equal keys, also with       *)
(* reverse=True.                                                           *)
(***************************************************************************)
SortDescBy(xs, Key(_)) ==
    LET n == Len(xs)
        rank(i) == Cardinality({j \in 1..n : Key(xs[j]) > Key(xs[i])})
                   + Cardinality({j \in 1..(i - 1) : Key(xs[j]) = Key(xs[i])}) + 1
    IN  [p \in 1..n |-> xs[CHOOSE i \in 1..n : rank(i) = p]]

(***************************************************************************)
(* scorer.py: the heuristic scorer.                                        *)
(***************************************************************************)
\* _recency_score(created_at), in tenths.  created_at is modelled by what
\* the parse yields: kind "none" (empty), "bad" (fromisoformat raises) or
\* "iso" with the age in whole hours at the time of scoring.
_recency_score(created_at) ==
    IF created_at.kind = "none" THEN 50
    ELSE IF created_at.kind = "bad" THEN 50
    ELSE IF created_at.age < 6 THEN 100
    ELSE IF created_at.age < 24 THEN 80
    ELSE IF created_at.age < 72 THEN 60
    ELSE IF created_at.age < 168 THEN 40
    ELSE 20

\* f"{title} {content}" of the lowercased title and content
SignalText(signal) == Lower(signal.title) \o <<" ">> \o Lower(signal.content)

\* variant: the negative keywords are looked for in the title only
IsNegativeTitleOnly(signal, config) ==
    \E i \in 1..Len(config.negative_keywords) :
        Contains(Lower(signal.title), Lower(config.negative_keywords[i]))

\* any(nk in text for nk in negative_keywords)
IsNegative(signal, config) ==
    \E i \in 1..Len(config.negative_keywords) :
        Contains(SignalText(signal), Lower(config.negative_keywords[i]))

\* sum(1 for kw in words if kw in text)
Hits(signal, words) ==
    Cardinality({i \in 1..Len(words) : Contains(SignalText(signal), Lower(words[i]))})

\* the four subscores as exact fractions num/den of the Python floats:
\*   kw_score  = min(10, (kw_hits / max(len(keywords) * 0.3, 1)) * 10)
\*   pp_score  = min(10, (pp_hits / max(len(pain_points) * 0.2, 1)) * 10)
\*   eng_score = min(10, ((points + comments * 2) / 50) * 10)
KwDen(config) == Max(3 * Len(config.keywords), 10)

KwNum(signal, config) ==
    Min(10 * KwDen(config), 100 * Hits(signal, config.keywords))

PpDen(config) == Max(2 * Len(config.pain_points), 10)

PpNum(signal, config) ==
    Min(10 * PpDen(config), 100 * Hits(signal, config.pain_points))

EngDen == 5

EngNum(signal) == Min(10 * EngDen, signal.points + signal.num_comments * 2)

\* weights are kept in hundredths (0.4 is 40); the weighted total over the
\* common denominator 100 * KwDen * PpDen * EngDen
TotalDen(config) == 100 * KwDen(config) * PpDen(config) * EngDen

TotalNum(signal, config) ==
      KwNum(signal, config) * config.weights.keyword_match * PpDen(config) * EngDen
    + PpNum(signal, config) * config.weights.pain_point_match * KwDen(config) * EngDen
    + (_recency_score(signal.created_at) \div 10) * config.weights.recency
          * KwDen(config) * PpDen(config) * EngDen
    + EngNum(signal) * config.weights.engagement * KwDen(config) * PpDen(config)

\* final_score = round(min(10, max(1, total)), 1), in tenths
FinalScore(signal, config) ==
    LET d == TotalDen(config)
        clamped == Min(10 * d, Max(d, TotalNum(signal, config)))
    IN  RoundHalfEven(10 * clamped, d)

\* signal["score_breakdown"], each subscore rounded to one decimal, in tenths
ScoreBreakdown(signal, config) ==
    [keyword    |-> RoundHalfEven(10 * KwNum(signal, config), KwDen(config)),
     pain_point |-> RoundHalfEven(10 * PpNum(signal, config), PpDen(config)),
     recency    |-> _recency_score(signal.created_at),
     engagement |-> RoundHalfEven(10 * EngNum(signal), EngDen)]

\* the signal dict after the scorer has set score and score_breakdown; the
\* keys the AI scorer may set later are absent (has_ai FALSE, "" category)
Scored(signal, config) ==
    [id |-> signal.id, source |-> signal.source, title |-> signal.title,
     content |-> signal.content, url |-> signal.url,
     created_at |-> signal.created_at, points |-> signal.points,
     num_comments |-> signal.num_comments,
     score |-> FinalScore(signal, config),
     score_breakdown |-> ScoreBreakdown(signal, config),
     has_ai |-> FALSE, ai_score |-> 0, intent_category |-> "",
     ai_reasoning |-> "NULL", suggested_response |-> "NULL"]

ScoreOf(s) == s.score

\* score_signals_heuristic(signals, config)
score_signals_heuristic(signals, config) ==
    LET kept == SelectSeq(signals, LAMBDA s : ~IsNegative(s, config))
        scored == [i \in 1..Len(kept) |-> Scored(kept[i], config)]
    IN  SortDescBy(scored, ScoreOf)

(***************************************************************************)
(* scorer.py: the AI scorer.  The external service is the environment: ai  *)
(* holds whether the client could be built and, for the signal at each     *)
(* position of the list, what the request for it would yield:              *)
(*   kind "error"  - messages.create or json.loads raises                  *)
(*   kind "nojson" - the response holds no {...} match                     *)
(*   kind "ok"     - a JSON object, with or without "score" / "category"   *)
(***************************************************************************)
\* lines 121-124: the keys set from the parsed object
Augmented(signal, r) ==
    [signal EXCEPT
        !.has_ai = TRUE,
        !.ai_score = IF r.has_score THEN r.score ELSE signal.score,
        !.intent_category = IF r.has_category THEN r.category ELSE "noise",
        !.ai_reasoning = "reasoning",
        !.suggested_response = "response"]

\* variant: a signal whose request was issued always gets an ai_score, its
\* heuristic score when there is no reply to take one from
AiLoopMarksFailures(signals, config, ai, i, ai_count) ==
    [k \in DOMAIN signals |->
        IF signals[k].score >= config.ai_threshold
        THEN [signals[k] EXCEPT !.has_ai = TRUE, !.ai_score = signals[k].score]
        ELSE signals[k]]

\* one iteration of `for signal in signals`, from position i with ai_count
RECURSIVE AiLoop(_, _, _, _, _)
AiLoop(signals, config, ai, i, ai_count) ==
    IF i > Len(signals) THEN signals
    ELSE IF ai_count >= config.max_ai_per_run THEN signals
    ELSE IF signals[i].score < config.ai_threshold
         THEN AiLoop(signals, config, ai, i + 1, ai_count)
    ELSE IF signals[i].title = <<>> /\ signals[i].content = <<>>
         THEN AiLoop(signals, config, ai, i + 1, ai_count)
    ELSE IF ai.resp[i].kind = "ok"
         THEN AiLoop([signals EXCEPT ![i] = Augmented(signals[i], ai.resp[i])],
                     config, ai, i + 1, ai_count + 1)
    ELSE AiLoop(signals, config, ai, i + 1, ai_count)

\* the positions for which the loop reaches client.messages.create (line
\* 101), in the order of the requests, from position i with ai_count
RECURSIVE AiRequested(_, _, _, _, _)
AiRequested(signals, config, ai, i, ai_count) ==
    IF i > Len(signals) THEN <<>>
    ELSE IF ai_count >= config.max_ai_per_run THEN <<>>
    ELSE IF signals[i].score < config.ai_threshold
         THEN AiRequested(signals, config, ai, i + 1, ai_count)
    ELSE IF signals[i].title = <<>> /\ signals[i].content = <<>>
         THEN AiRequested(signals, config, ai, i + 1, ai_count)
    ELSE IF ai.resp[i].kind = "ok"
         THEN <<i>> \o AiRequested(signals, config, ai, i + 1, ai_count + 1)
    ELSE <<i>> \o AiRequested(signals, config, ai, i + 1, ai_count)

\* the requests of score_signals(signals, config): none in heuristic mode,
\* without an API key or without a client
Requested(signals, config, ai) ==
    IF config.mode \notin {"ai", "hybrid"} THEN <<>>
    ELSE IF ~config.ai_api_key \/ ~ai.client_ok THEN <<>>
    ELSE AiRequested(score_signals_heuristic(signals, config), config, ai, 1, 0)

\* score_signals_ai(signals, config)
score_signals_ai(signals, config, ai) ==
    IF ~config.ai_api_key THEN signals
    ELSE IF ~ai.client_ok THEN signals
    ELSE AiLoop(signals, config, ai, 1, 0)

\* x.get("ai_score") or x.get("score", 0): a missing or zero ai_score is falsy
AiOrScore(s) == IF s.has_ai /\ s.ai_score # 0 THEN s.ai_score ELSE s.score

\* lines 147-155: the intent category of a score (in tenths)
IntentOf(score) ==
    IF score >= 70 THEN "high_intent"
    ELSE IF score >= 50 THEN "medium_intent"
    ELSE IF score >= 30 THEN "low_intent"
    ELSE "noise"

\* lines 145-155: only signals with no (or an empty) intent_category
WithIntent(s) ==
    IF s.intent_category = ""
    THEN [s EXCEPT !.intent_category = IntentOf(AiOrScore(s))]
    ELSE s

\* score_signals(signals, config)
score_signals(signals, config, ai) ==
    LET heur == score_signals_heuristic(signals, config)
        scored == IF config.mode \in {"ai", "hybrid"}
                  THEN SortDescBy(score_signals_ai(heur, config, ai), AiOrScore)
                  ELSE heur
    IN  [i \in 1..Len(scored) |-> WithIntent(scored[i])]

(***************************************************************************)
(* app/pipeline.py: deduplicate.                                           *)
(***************************************************************************)
\* the loop state before the first iteration: seen = {}, deduped = []
DedupInit == [seen |-> <<>>, deduped |-> <<>>]

\* faulty variant of DedupStep: every signal is kept
DedupStepKeepAll(st, s) ==
    [seen |-> st.seen, deduped |-> Append(st.deduped, s)]

\* faulty variant of DedupStep: the first signal of a key is never replaced
DedupStepKeepFirst(st, s) ==
    LET key == _normalize(s.title)
    IN  IF key # <<>> /\ key \in DOMAIN st.seen THEN st
        ELSE [seen |-> IF key # <<>> THEN (key :> s) @@ st.seen ELSE st.seen,
              deduped |-> Append(st.deduped, s)]

\* faulty variant of DedupStep: the winner takes the place of the loser
DedupStepInPlace(st, s) ==
    LET key == _normalize(s.title)
    IN  IF key # <<>> /\ key \in DOMAIN st.seen
        THEN IF s.score > st.seen[key].score
             THEN [seen |-> [st.seen EXCEPT ![key] = s],
                   deduped |-> [i \in 1..Len(st.deduped) |->
                                   IF st.deduped[i].id = st.seen[key].id
                                   THEN s ELSE st.deduped[i]]]
             ELSE st
        ELSE [seen |-> IF key # <<>> THEN (key :> s) @@ st.seen ELSE st.seen,
              deduped |-> Append(st.deduped, s)]

\* one iteration of `for s in signals`
DedupStep(st, s) ==
    LET key == _normalize(s.title)
    IN  IF key # <<>> /\ key \in DOMAIN st.seen
        THEN IF s.score > st.seen[key].score
             THEN [seen |-> [st.seen EXCEPT ![key] = s],
                   deduped |-> Append(SelectSeq(st.deduped,
                                   LAMBDA x : x.id # st.seen[key].id), s)]
             ELSE st
        ELSE [seen |-> IF key # <<>> THEN (key :> s) @@ st.seen ELSE st.seen,
              deduped |-> Append(st.deduped, s)]

\* the loop state after the first n iterations
RECURSIVE DedupAfter(_, _)
DedupAfter(signals, n) ==
    IF n = 0 THEN DedupInit
    ELSE DedupStep(DedupAfter(signals, n - 1), signals[n])

\* deduplicate(signals)
deduplicate(signals) == DedupAfter(signals, Len(signals)).deduped

(***************************************************************************)
(* Inputs: the configurations load_config may yield, the raw signals the   *)
(* fetchers may return and the replies of the external AI service.         *)
(***************************************************************************)
DefaultWeights ==
    [keyword_match |-> 40, pain_point_match |-> 20, recency |-> 20, engagement |-> 20]

\* config.yaml with every source enabled and heuristic scoring
CfgHeuristic ==
    [sources |-> [hackernews |-> TRUE, reddit |-> TRUE, twitter |-> TRUE],
     keywords |-> << <<"a", "b">>, <<"c">> >>,
     pain_points |-> << <<"c">> >>,
     negative_keywords |-> << <<"x">> >>,
     weights |-> DefaultWeights,
     mode |-> "heuristic", min_score |-> 30,
     ai_threshold |-> 40, max_ai_per_run |-> 1, ai_api_key |-> FALSE,
     max_leads |-> 3]

\* Reddit and Twitter, hybrid scoring with an API key, a tighter lead limit
CfgHybrid ==
    [CfgHeuristic EXCEPT
        !.sources = [hackernews |-> FALSE, reddit |-> TRUE, twitter |-> TRUE],
        !.mode = "hybrid", !.ai_api_key = TRUE, !.max_leads = 2]

\* Hacker News alone
CfgHackerNews ==
    [CfgHeuristic EXCEPT !.sources.reddit = FALSE, !.sources.twitter = FALSE]

\* no source enabled
CfgNoSource ==
    [CfgHeuristic EXCEPT !.sources =
        [hackernews |-> FALSE, reddit |-> FALSE, twitter |-> FALSE]]

NoConfig == [mode |-> "unset"]

Iso(age) == [kind |-> "iso", age |-> age]

\* "Ab!": both keywords and the pain point, recent, much engagement
SigHot ==
    [id |-> "hn-1", source |-> "hackernews", title |-> <<"A", "b", "!">>,
     content |-> <<"A", "b", "!", " ", "c">>, url |-> "u1",
     created_at |-> Iso(3), points |-> 40, num_comments |-> 10]

\* "b1": no keyword, old: scores below min_score
SigCold ==
    [id |-> "hn-2", source |-> "hackernews", title |-> <<"b", "1">>,
     content |-> <<"b", "1">>, url |-> "u3",
     created_at |-> Iso(200), points |-> 0, num_comments |-> 0]

\* "ab x": a keyword and the negative keyword
SigNegative ==
    [id |-> "hn-3", source |-> "hackernews", title |-> <<"a", "b", " ", "x">>,
     content |-> <<"a", "b", " ", "x">>, url |-> "u4",
     created_at |-> Iso(3), points |-> 60, num_comments |-> 0]

\* " ab": normalizes to the same title key as SigHot
SigDup ==
    [id |-> "reddit-1", source |-> "reddit", title |-> <<" ", "a", "b">>,
     content |-> <<" ", "a", "b">>, url |-> "u2",
     created_at |-> Iso(30), points |-> 0, num_comments |-> 0]

\* "!": an empty title key, the url of SigHot, no timestamp, downvoted
SigSameUrl ==
    [id |-> "reddit-2", source |-> "reddit", title |-> <<"!">>,
     content |-> <<"!", " ", "c">>, url |-> "u1",
     created_at |-> [kind |-> "none", age |-> 0], points |-> -5, num_comments |-> 0]

\* a tweet with no link: url "", created now
SigTweet ==
    [id |-> "twitter-1", source |-> "twitter", title |-> <<"c", "a", "b">>,
     content |-> <<"c", "a", "b">>, url |-> "",
     created_at |-> Iso(0), points |-> 0, num_comments |-> 0]

\* the replies of the AI service to one request
AiError == [kind |-> "error", has_score |-> FALSE, score |-> 0,
            has_category |-> FALSE, category |-> ""]

AiHigh == [kind |-> "ok", has_score |-> TRUE, score |-> 90,
           has_category |-> TRUE, category |-> "high_intent"]

AiLow == [kind |-> "ok", has_score |-> TRUE, score |-> 20,
          has_category |-> FALSE, category |-> ""]

AiReplies == {AiError, AiHigh, AiLow}

\* the environments of one score_signals call on n signals: the client
\* cannot be built, or the first request gets one reply and the others another
AiEnvs(n) ==
    {[client_ok |-> FALSE, resp |-> [i \in 1..n |-> AiError]]}
    \cup {[client_ok |-> TRUE, resp |-> [i \in 1..n |-> IF i = 1 THEN r1 ELSE r2]] :
            r1 \in AiReplies, r2 \in AiReplies}

\* The inputs of the pipeline in one deployment: the configurations the
\* config file may hold and what each source's fetch_signals may return.
\* the web application's deployment
WebInputs ==
    [configs |-> {CfgHackerNews},
     results |-> [hackernews |-> {<<>>, <<SigHot, SigNegative>>},
                  reddit |-> {<<SigSameUrl>>},
                  twitter |-> {<<SigTweet>>}]]

\* the command-line pipeline's deployment
CliInputs ==
    [configs |-> {CfgHeuristic, CfgHybrid, CfgNoSource},
     results |-> [hackernews |-> {<<SigHot, SigCold, SigNegative>>},
                  reddit |-> {<<>>, <<SigDup, SigSameUrl>>},
                  twitter |-> {<<SigTweet>>}]]

(***************************************************************************)
(* State.                                                                  *)
(***************************************************************************)
VARIABLES
    _scan_lock,     \* app.py _scan_lock: TRUE while some thread holds it
    _scan_running,  \* app.py _scan_running
    req,            \* each POST /api/scan request: position and response
    run,            \* each process that executes run_scan: its locals
    scans,          \* table scans, row i has id i (AUTOINCREMENT)
    leads,          \* table leads, row i has id i (AUTOINCREMENT)
    user_updates,   \* number of PATCH /api/leads/{id} requests served
    hist,           \* history, per scan id: what the run fetched and upserted
    calc            \* one call of deduplicate or of the scoring chain, in steps

vars ==
    <<_scan_lock, _scan_running, req, run, scans, leads, user_updates, hist, calc>>

\* the POST /api/scan requests; request q runs its scan in thread q
Requests == 1..MaxRequests

\* process 0 is `python pipeline.py` (main), started from the shell
Cli == 0

Procs == {Cli} \cup Requests

NoResult == [status |-> "none"]

\* the locals of a process that is not inside run_scan
IdleRun ==
    [pc |-> "idle", config |-> NoConfig, scan_id |-> 0, all_signals |-> <<>>,
     signals |-> <<>>, i |-> 1, leads_stored |-> 0, exc |-> "none",
     result |-> NoResult, outcome |-> "none"]

\* the history of a scan whose run has fetched and upserted nothing yet
\*   fetched  the number of raw signals the fetchers have returned
\*   empty    every enabled fetcher returned and line 81 found no signal
\*   scored   score_signals was called
\*   built    the final list was built (line 96)
\*   final    the urls of the final list
\*   log      the upsert_lead calls in order: the url, whether the call
\*            returned (ok) and the status of the url's row before the call
\*   writes   the number of complete_scan calls on the scan that committed
\*   caught   the step whose exception reached `except Exception` (line 125)
NoHistory ==
    [fetched |-> 0, empty |-> FALSE, scored |-> FALSE, built |-> FALSE,
     final |-> <<>>, log |-> <<>>, writes |-> 0, caught |-> "none"]

\* no function call is being followed
NoCalc == [op |-> "none"]

\* the variables of the application
app == <<_scan_lock, _scan_running, req, run, scans, leads, user_updates, hist>>

\* the application after start-up: no request, no scan, empty tables
AppInit ==
    /\ _scan_lock = FALSE
    /\ _scan_running = FALSE
    /\ req = [q \in Requests |-> [pc |-> "new", response |-> "none"]]
    /\ run = [p \in Procs |-> IdleRun]
    /\ scans = <<>>
    /\ leads = <<>>
    /\ user_updates = 0
    /\ hist = <<>>

Init == AppInit /\ calc = NoCalc

(***************************************************************************)
(* database.py.  Each call is one transaction on its own connection.       *)
(***************************************************************************)
\* create_scan: INSERT INTO scans (sources_used, status) VALUES (?, 'running')
create_scan(table, sources_used) ==
    Append(table, [status |-> "running", total_signals |-> 0, leads_found |-> 0,
                   sources_used |-> sources_used])

\* complete_scan: UPDATE scans SET total_signals, leads_found, status WHERE id
complete_scan(table, scan_id, total_signals, leads_found, status) ==
    [n \in 1..Len(table) |->
        IF n = scan_id
        THEN [table[n] EXCEPT !.total_signals = total_signals,
                              !.leads_found = leads_found, !.status = status]
        ELSE table[n]]

\* the VALUES (...) of upsert_lead's INSERT
NewLead(lead) ==
    [source |-> lead.source, title |-> lead.title, url |-> lead.url,
     text |-> lead.text, score |-> lead.score, has_ai |-> lead.has_ai,
     ai_score |-> lead.ai_score, ai_reasoning |-> lead.ai_reasoning,
     intent_category |-> lead.intent_category,
     suggested_response |-> lead.suggested_response,
     engagement_upvotes |-> lead.engagement_upvotes,
     engagement_comments |-> lead.engagement_comments,
     status |-> "new", notes |-> "NULL", contacted_at |-> "NULL"]

\* faulty variant of RefreshedLead: INSERT OR REPLACE, the row is rewritten
ReplacedLead(row, lead) == NewLead(lead)

\* the DO UPDATE SET ... of upsert_lead's ON CONFLICT(url)
RefreshedLead(row, lead) ==
    [row EXCEPT !.score = lead.score, !.has_ai = lead.has_ai,
                !.ai_score = lead.ai_score, !.ai_reasoning = lead.ai_reasoning,
                !.intent_category = lead.intent_category,
                !.suggested_response = lead.suggested_response,
                !.engagement_upvotes = lead.engagement_upvotes,
                !.engagement_comments = lead.engagement_comments]

\* upsert_lead: INSERT ... ON CONFLICT(url) DO UPDATE SET ...
upsert_lead(table, lead) ==
    IF \E n \in 1..Len(table) : table[n].url = lead.url
    THEN [n \in 1..Len(table) |->
            IF table[n].url = lead.url THEN RefreshedLead(table[n], lead)
            ELSE table[n]]
    ELSE Append(table, NewLead(lead))

\* update_lead: UPDATE leads SET <allowed fields> WHERE id = lead_id.
\* updates maps some of status / notes to their new values.
update_lead(table, lead_id, updates) ==
    LET withStatus(row) ==
            IF "status" \in DOMAIN updates
            THEN [row EXCEPT !.status = updates.status,
                             !.contacted_at =
                                 IF updates.status = "contacted" THEN "now" ELSE @]
            ELSE row
        withNotes(row) ==
            IF "notes" \in DOMAIN updates
            THEN [row EXCEPT !.notes = updates.notes]
            ELSE row
    IN  [n \in 1..Len(table) |->
            IF n = lead_id THEN withNotes(withStatus(table[n])) ELSE table[n]]

(***************************************************************************)
(* app.py: POST /api/scan (trigger_scan) and the thread body _run.         *)
(***************************************************************************)
\* faulty variant of TrigAcquire: the block is entered without waiting for
\* the lock, so the check and the set of two requests may interleave
TrigAcquireUnlocked(q) ==
    /\ req[q].pc = "new"
    /\ _scan_lock' = TRUE
    /\ req' = [req EXCEPT ![q].pc = "check"]
    /\ UNCHANGED <<calc, _scan_running, run, scans, leads, user_updates, hist>>

\* `with _scan_lock:` is entered: the lock is taken when it is free
TrigAcquire(q) ==
    /\ req[q].pc = "new"
    /\ ~_scan_lock
    /\ _scan_lock' = TRUE
    /\ req' = [req EXCEPT ![q].pc = "check"]
    /\ UNCHANGED <<calc, _scan_running, run, scans, leads, user_updates, hist>>

\* `if _scan_running: return {"status": "already_running", ...}`
TrigCheck(q) ==
    /\ req[q].pc = "check"
    /\ IF _scan_running
       THEN /\ req' = [req EXCEPT ![q] = [pc |-> "done", response |-> "already_running"]]
            /\ _scan_lock' = FALSE
       ELSE /\ req' = [req EXCEPT ![q].pc = "set"]
            /\ UNCHANGED _scan_lock
    /\ UNCHANGED <<calc, _scan_running, run, scans, leads, user_updates, hist>>

\* `_scan_running = True` and the end of the with block
TrigSet(q) ==
    /\ req[q].pc = "set"
    /\ _scan_running' = TRUE
    /\ _scan_lock' = FALSE
    /\ req' = [req EXCEPT ![q].pc = "start"]
    /\ UNCHANGED <<calc, run, scans, leads, user_updates, hist>>

\* `thread.start()` and `return {"status": "started", ...}`
TrigStart(q) ==
    /\ req[q].pc = "start"
    /\ req' = [req EXCEPT ![q] = [pc |-> "done", response |-> "started"]]
    /\ run' = [run EXCEPT ![q].pc = "load_config"]
    /\ UNCHANGED <<calc, _scan_lock, _scan_running, scans, leads, user_updates, hist>>

\* `finally: with _scan_lock: _scan_running = False` of _run
Finally(p) ==
    /\ run[p].pc = "finally"
    /\ ~_scan_lock
    /\ _scan_running' = FALSE
    /\ run' = [run EXCEPT ![p].pc = "done"]
    /\ UNCHANGED <<calc, _scan_lock, req, scans, leads, user_updates, hist>>

(***************************************************************************)
(* app/pipeline.py: main, load_config and run_scan.                        *)
(***************************************************************************)
\* `python pipeline.py`: main() starts
CliStart ==
    /\ run[Cli].pc = "idle"
    /\ run' = [run EXCEPT ![Cli].pc = "load_config"]
    /\ UNCHANGED <<calc, _scan_lock, _scan_running, req, scans, leads, user_updates, hist>>

\* where control goes when run_scan (or load_config) returns or raises:
\* the finally block of _run in a thread, the end of the process in main
AfterRun(p) == IF p = Cli THEN "done" ELSE "finally"

\* the frame of run_scan is left: its locals are gone
Left(r, p) ==
    [IdleRun EXCEPT !.pc = AfterRun(p), !.scan_id = r.scan_id]

\* faulty variant of Raised: the exception ends the thread without the
\* finally block of _run
RaisedPastFinally(r, p, e) ==
    [IdleRun EXCEPT !.pc = "done", !.scan_id = r.scan_id, !.exc = e,
                    !.outcome = "raised"]

\* the exception e leaves run_scan / load_config
Raised(r, p, e) == [Left(r, p) EXCEPT !.exc = e, !.outcome = "raised"]

\* the exception e is raised inside run_scan's try block
Caught(r, e) == [r EXCEPT !.pc = "handler", !.exc = e]

\* run_scan returns the summary
Returned(r, p, summary) ==
    [Left(r, p) EXCEPT !.result = summary, !.outcome = "returned"]

\* load_config(): the file is read, or open / yaml.safe_load raises
LoadConfig(p, inp) ==
    /\ run[p].pc = "load_config"
    /\ \/ \E c \in inp.configs :
            run' = [run EXCEPT ![p].config = c, ![p].pc = "create_scan"]
       \/ run' = [run EXCEPT ![p] = Raised(@, p, "load_config")]
    /\ UNCHANGED <<calc, _scan_lock, _scan_running, req, scans, leads, user_updates, hist>>

Sources == <<"hackernews", "reddit", "twitter">>

\* lines 53-59: sources_used
SourcesUsed(config) == SelectSeq(Sources, LAMBDA s : config.sources[s])

\* the statement run_scan executes after the fetch of the k-th source:
\* the fetch of the next source in sources_used, or line 81
PcAfterSource(config, k) ==
    LET later == {j \in (k + 1)..Len(Sources) : config.sources[Sources[j]]}
    IN  IF later = {} THEN "fetched"
        ELSE Sources[CHOOSE j \in later : \A n \in later : j <= n]

\* line 61: scan_id = db.create_scan(sources_used), outside the try block
CreateScan(p) ==
    /\ run[p].pc = "create_scan"
    /\ \/ /\ scans' = create_scan(scans, SourcesUsed(run[p].config))
          /\ hist' = Append(hist, NoHistory)
          /\ run' = [run EXCEPT ![p].scan_id = Len(scans) + 1,
                                ![p].pc = PcAfterSource(run[p].config, 0)]
       \/ /\ run' = [run EXCEPT ![p] = Raised(@, p, "create_scan")]
          /\ UNCHANGED <<scans, hist>>
    /\ UNCHANGED <<calc, _scan_lock, _scan_running, req, leads, user_updates>>

\* lines 67-77: all_signals.extend(<source>.fetch_signals(config))
Fetch(p, k, inp) ==
    /\ run[p].pc = Sources[k]
    /\ \/ \E r \in inp.results[Sources[k]] :
            /\ run' = [run EXCEPT ![p].all_signals = @ \o r,
                                  ![p].pc = PcAfterSource(run[p].config, k)]
            /\ hist' = [hist EXCEPT ![run[p].scan_id].fetched = @ + Len(r)]
       \/ /\ run' = [run EXCEPT ![p] = Caught(@, "fetch")]
          /\ hist' = [hist EXCEPT ![run[p].scan_id].caught = "fetch"]
    /\ UNCHANGED <<calc, _scan_lock, _scan_running, req, scans, leads, user_updates>>

Summary(scan_id, total_signals, leads_found, status, error) ==
    [scan_id |-> scan_id, total_signals |-> total_signals,
     leads_found |-> leads_found, status |-> status, error |-> error]

\* faulty variant of EmptyScan: no short-circuit, the empty list is scored
EmptyScanScores(p) ==
    /\ run[p].pc = "fetched"
    /\ run[p].all_signals = <<>>
    /\ run' = [run EXCEPT ![p].signals = <<>>, ![p].pc = "filter"]
    /\ hist' = [hist EXCEPT ![run[p].scan_id].empty = TRUE,
                            ![run[p].scan_id].scored = TRUE]
    /\ UNCHANGED <<calc, _scan_lock, _scan_running, req, scans, leads, user_updates>>

\* lines 81-83: `if not all_signals:` complete with zero totals and return
EmptyScan(p) ==
    /\ run[p].pc = "fetched"
    /\ run[p].all_signals = <<>>
    /\ \/ /\ scans' = complete_scan(scans, run[p].scan_id, 0, 0, "completed")
          /\ hist' = [hist EXCEPT ![run[p].scan_id].empty = TRUE,
                                  ![run[p].scan_id].writes = @ + 1]
          /\ run' = [run EXCEPT ![p] =
                Returned(@, p, Summary(run[p].scan_id, 0, 0, "completed", "none"))]
       \/ /\ run' = [run EXCEPT ![p] = Caught(@, "complete_scan")]
          /\ hist' = [hist EXCEPT ![run[p].scan_id].empty = TRUE,
                                  ![run[p].scan_id].caught = "complete_scan"]
          /\ UNCHANGED scans
    /\ UNCHANGED <<calc, _scan_lock, _scan_running, req, leads, user_updates>>

\* line 87: scored = score_signals(all_signals, config)
Score(p) ==
    /\ run[p].pc = "fetched"
    /\ run[p].all_signals # <<>>
    /\ \/ /\ run' = [run EXCEPT ![p] = Caught(@, "score")]
          /\ hist' = [hist EXCEPT ![run[p].scan_id].scored = TRUE,
                                  ![run[p].scan_id].caught = "score"]
       \/ /\ \E ai \in AiEnvs(Len(run[p].all_signals)) :
                run' = [run EXCEPT
                    ![p].signals = score_signals(run[p].all_signals, run[p].config, ai),
                    ![p].pc = "filter"]
          /\ hist' = [hist EXCEPT ![run[p].scan_id].scored = TRUE]
    /\ UNCHANGED <<calc, _scan_lock, _scan_running, req, scans, leads, user_updates>>

\* lines 90-91: filtered = [s for s in scored if s.get("score", 0) >= min_score]
Filtered(scored, config) ==
    SelectSeq(scored, LAMBDA s : s.score >= config.min_score)

Filter(p) ==
    /\ run[p].pc = "filter"
    /\ \/ /\ run' = [run EXCEPT ![p].signals = Filtered(@, run[p].config),
                                ![p].pc = "dedupe"]
          /\ UNCHANGED hist
       \/ /\ run' = [run EXCEPT ![p] = Caught(@, "filter")]
          /\ hist' = [hist EXCEPT ![run[p].scan_id].caught = "filter"]
    /\ UNCHANGED <<calc, _scan_lock, _scan_running, req, scans, leads, user_updates>>

\* lines 94-96: deduped = deduplicate(filtered); final = deduped[:max_leads]
Final(filtered, config) == Take(deduplicate(filtered), config.max_leads)

Urls(signals) == [n \in 1..Len(signals) |-> signals[n].url]

Dedupe(p) ==
    /\ run[p].pc = "dedupe"
    /\ \/ /\ run' = [run EXCEPT ![p].signals = Final(@, run[p].config),
                                ![p].pc = "persist"]
          /\ hist' = [hist EXCEPT
                ![run[p].scan_id].built = TRUE,
                ![run[p].scan_id].final = Urls(Final(run[p].signals, run[p].config))]
       \/ /\ run' = [run EXCEPT ![p] = Caught(@, "dedupe")]
          /\ hist' = [hist EXCEPT ![run[p].scan_id].caught = "dedupe"]
    /\ UNCHANGED <<calc, _scan_lock, _scan_running, req, scans, leads, user_updates>>

\* lines 102-115: the dict run_scan hands to db.upsert_lead
LeadOf(signal) ==
    [source |-> signal.source, title |-> signal.title, url |-> signal.url,
     text |-> signal.content, score |-> signal.score, has_ai |-> signal.has_ai,
     ai_score |-> signal.ai_score, ai_reasoning |-> signal.ai_reasoning,
     intent_category |-> signal.intent_category,
     suggested_response |-> signal.suggested_response,
     engagement_upvotes |-> signal.points,
     engagement_comments |-> signal.num_comments]

\* the locals after db.upsert_lead returned: leads_stored += 1, next signal
Stored(r) == [r EXCEPT !.leads_stored = @ + 1, !.i = @ + 1]

\* faulty variant of StoreFailed: the failure ends the loop
StoreFailedAborts(r) == [r EXCEPT !.i = Len(r.signals) + 1]

\* the locals after db.upsert_lead raised: `except Exception` prints the
\* error and the loop goes on with the next signal
StoreFailed(r) == [r EXCEPT !.i = @ + 1]

\* history only: the status of the row with this url, "absent" if none
StatusOf(table, url) ==
    IF \E n \in 1..Len(table) : table[n].url = url
    THEN table[CHOOSE n \in 1..Len(table) : table[n].url = url].status
    ELSE "absent"

\* lines 100-118: one iteration of `for signal in final`
Persist(p) ==
    /\ run[p].pc = "persist"
    /\ run[p].i <= Len(run[p].signals)
    /\ LET signal == run[p].signals[run[p].i]
           was == StatusOf(leads, signal.url)
       IN  \/ /\ leads' = upsert_lead(leads, LeadOf(signal))
              /\ run' = [run EXCEPT ![p] = Stored(@)]
              /\ hist' = [hist EXCEPT ![run[p].scan_id].log =
                    Append(@, [url |-> signal.url, ok |-> TRUE, was |-> was])]
           \/ /\ run' = [run EXCEPT ![p] = StoreFailed(@)]
              /\ hist' = [hist EXCEPT ![run[p].scan_id].log =
                    Append(@, [url |-> signal.url, ok |-> FALSE, was |-> was])]
              /\ UNCHANGED leads
    /\ UNCHANGED <<calc, _scan_lock, _scan_running, req, scans, user_updates>>

\* faulty variant of TotalSignals: the length of the final list
FinalSignals(r) == Len(r.signals)

\* len(all_signals), the total_signals of lines 120 and 123
TotalSignals(r) == Len(r.all_signals)

\* faulty variant of Complete: the scan is completed and the handler of
\* line 125 is entered all the same
CompleteThenFail(p) ==
    /\ run[p].pc = "persist"
    /\ run[p].i > Len(run[p].signals)
    /\ scans' = complete_scan(scans, run[p].scan_id,
                    Len(run[p].all_signals), run[p].leads_stored, "completed")
    /\ hist' = [hist EXCEPT ![run[p].scan_id].writes = @ + 1]
    /\ run' = [run EXCEPT ![p] = Caught(@, "print")]
    /\ UNCHANGED <<calc, _scan_lock, _scan_running, req, leads, user_updates>>

\* lines 120-123: complete the scan and return the summary
Complete(p) ==
    /\ run[p].pc = "persist"
    /\ run[p].i > Len(run[p].signals)
    /\ \/ /\ scans' = complete_scan(scans, run[p].scan_id,
                          TotalSignals(run[p]), run[p].leads_stored, "completed")
          /\ run' = [run EXCEPT ![p] =
                Returned(@, p, Summary(run[p].scan_id, TotalSignals(run[p]),
                                       run[p].leads_stored, "completed", "none"))]
          /\ hist' = [hist EXCEPT ![run[p].scan_id].writes = @ + 1]
       \/ /\ run' = [run EXCEPT ![p] = Caught(@, "complete_scan")]
          /\ hist' = [hist EXCEPT ![run[p].scan_id].caught = "complete_scan"]
          /\ UNCHANGED scans
    /\ UNCHANGED <<calc, _scan_lock, _scan_running, req, leads, user_updates>>

\* lines 125-128: `except Exception as e:` mark the scan failed and return
Handler(p) ==
    /\ run[p].pc = "handler"
    /\ \/ /\ scans' = complete_scan(scans, run[p].scan_id, 0, 0, "failed")
          /\ run' = [run EXCEPT ![p] =
                Returned(@, p, Summary(run[p].scan_id, 0, 0, "failed", run[p].exc))]
          /\ hist' = [hist EXCEPT ![run[p].scan_id].writes = @ + 1]
       \/ /\ run' = [run EXCEPT ![p] = Raised(@, p, "complete_scan")]
          /\ UNCHANGED <<scans, hist>>
    /\ UNCHANGED <<calc, _scan_lock, _scan_running, req, leads, user_updates>>

(***************************************************************************)
(* app.py: PATCH /api/leads/{lead_id} (update_lead).  A request with no    *)
(* field (400) or an unknown id (404) changes nothing and is left out.     *)
(***************************************************************************)
UserUpdates ==
    {[status |-> "contacted"], [status |-> "converted", notes |-> "won"]}

UpdateLead ==
    /\ user_updates < MaxUserUpdates
    /\ \E lead_id \in 1..Len(leads), updates \in UserUpdates :
            leads' = update_lead(leads, lead_id, updates)
    /\ user_updates' = user_updates + 1
    /\ UNCHANGED <<calc, _scan_lock, _scan_running, req, run, scans, hist>>

(***************************************************************************)
(* Specifications.                                                         *)
(***************************************************************************)
\* the steps of run_scan in the processes P with the inputs inp
RunScan(P, inp) ==
    \/ \E p \in P : LoadConfig(p, inp)
    \/ \E p \in P : CreateScan(p)
    \/ \E p \in P, k \in 1..Len(Sources) : Fetch(p, k, inp)
    \/ \E p \in P : EmptyScan(p)
    \/ \E p \in P : Score(p)
    \/ \E p \in P : Filter(p)
    \/ \E p \in P : Dedupe(p)
    \/ \E p \in P : Persist(p)
    \/ \E p \in P : Complete(p)
    \/ \E p \in P : Handler(p)

\* the start-scan endpoint serving the requests Q and their scan threads
Scanning(Q) ==
    \/ \E q \in Q : TrigAcquire(q)
    \/ \E q \in Q : TrigCheck(q)
    \/ \E q \in Q : TrigSet(q)
    \/ \E q \in Q : TrigStart(q)
    \/ \E p \in Q : Finally(p)
    \/ RunScan(Q, WebInputs)

\* Spec: the web application serving every start-scan request
Next == Scanning(Requests)

Spec == Init /\ [][Next]_vars

\* the steps of the requests that were made and of the scan threads, that
\* is every step but the arrival of a request
Progress ==
    \/ \E q \in Requests : TrigCheck(q) \/ TrigSet(q) \/ TrigStart(q)
    \/ \E p \in Requests : Finally(p)
    \/ RunScan(Requests, WebInputs)

\* the server does not stop while a handler or a scan thread has a step to
\* take: threads are scheduled, the lock is held for two statements only,
\* and every network and database call returns or raises in bounded time
\* (timeouts of 10 and 15 seconds, sqlite3's busy timeout).  A request
\* need not arrive.
Fairness == WF_vars(Progress)

SpecFair == Spec /\ Fairness

\* SpecDb: the command-line pipeline, one scan thread of the web
\* application and the user, all on the same database
FirstRequest == {1}

NextDb ==
    \/ CliStart
    \/ RunScan({Cli}, CliInputs)
    \/ Scanning(FirstRequest)
    \/ UpdateLead

SpecDb == Init /\ [][NextDb]_vars

(***************************************************************************)
(* SpecDedup: one call of deduplicate on every list of up to MaxDedupLen   *)
(* scored signals with distinct ids (each fetcher drops repeated ids and   *)
(* prefixes its source), followed iteration by iteration.                  *)
(***************************************************************************)
\* a scored signal, with the keys deduplicate reads
Candidate(id, title, score) == [id |-> id, title |-> title, score |-> score]

DedupPool ==
    {Candidate("hn-1", <<"A", "b", "!">>, 70),
     Candidate("reddit-1", <<" ", "a", "b">>, 40),
     Candidate("hn-2", <<"a", "B">>, 70),
     Candidate("reddit-2", <<"!">>, 50),
     Candidate("hn-3", <<>>, 90),
     Candidate("twitter-1", <<"c">>, 60),
     Candidate("twitter-2", <<"C", " ">>, 30)}

\* the lists of up to n distinct elements of S
InjSeqs(S, n) ==
    {s \in UNION {[1..k -> S] : k \in 0..n} :
        \A i, j \in DOMAIN s : s[i] = s[j] => i = j}

InitDedup ==
    /\ AppInit
    /\ calc \in {[op |-> "deduplicate", signals |-> s, n |-> 0, st |-> DedupInit] :
                    s \in InjSeqs(DedupPool, MaxDedupLen)}

\* the next iteration of `for s in signals`
DedupIter ==
    /\ calc.op = "deduplicate"
    /\ calc.n < Len(calc.signals)
    /\ calc' = [calc EXCEPT !.n = @ + 1,
                            !.st = DedupStep(@, calc.signals[calc.n + 1])]
    /\ UNCHANGED app

NextDedup == DedupIter

SpecDedup == InitDedup /\ [][NextDedup]_vars

(***************************************************************************)
(* SpecScore: one pass of lines 87-96 of run_scan (score_signals, filter,  *)
(* deduplicate, truncate) on every list of up to MaxRaw distinct raw       *)
(* signals, under each configuration and each behaviour of the AI service. *)
(***************************************************************************)
\* "ab" with the negative keyword in the content only
SigBuried ==
    [id |-> "hn-4", source |-> "hackernews", title |-> <<"a", "b">>,
     content |-> <<"a", "b", " ", "x">>, url |-> "u5",
     created_at |-> Iso(3), points |-> 60, num_comments |-> 0]

RawPool == {SigHot, SigCold, SigNegative, SigDup, SigSameUrl, SigTweet, SigBuried}

\* heuristic scoring with weights that are negative, zero and above 1
CfgSkewed ==
    [CfgHeuristic EXCEPT !.weights =
        [keyword_match |-> -50, pain_point_match |-> 300, recency |-> 0,
         engagement |-> 100]]

\* ai mode, up to two augmented signals, three leads
CfgAi == [CfgHybrid EXCEPT !.mode = "ai", !.max_ai_per_run = 2, !.max_leads = 3]

ScoreConfigs == {CfgHeuristic, CfgSkewed, CfgHybrid, CfgAi}

\* replies the service may give besides AiError, AiHigh and AiLow: text
\* with no {...} in it, a score of 0, a category outside the four
AiNoJson == [kind |-> "nojson", has_score |-> FALSE, score |-> 0,
             has_category |-> FALSE, category |-> ""]

AiZero == [kind |-> "ok", has_score |-> TRUE, score |-> 0,
           has_category |-> TRUE, category |-> "noise"]

AiOffList == [kind |-> "ok", has_score |-> TRUE, score |-> 80,
              has_category |-> TRUE, category |-> "spam"]

ScoreReplies == AiReplies \cup {AiNoJson, AiZero, AiOffList}

\* the behaviours of the service during one call on n signals: no client,
\* or one reply for the first signal of the list and one for the others
ScoreEnvs(n) ==
    {[client_ok |-> FALSE, resp |-> [i \in 1..n |-> AiError]]}
    \cup {[client_ok |-> TRUE, resp |-> [i \in 1..n |-> IF i = 1 THEN r1 ELSE r2]] :
            r1 \in ScoreReplies, r2 \in ScoreReplies}

\* the service is not called in heuristic mode: one behaviour is enough
EnvsOf(config, n) ==
    IF config.mode = "heuristic"
    THEN {[client_ok |-> FALSE, resp |-> [i \in 1..n |-> AiError]]}
    ELSE ScoreEnvs(n)

InitScore ==
    /\ AppInit
    /\ calc \in {[op |-> "score", stage |-> "raw", raw |-> r, config |-> c,
                   ai |-> e, heur |-> <<>>, requests |-> <<>>, scored |-> <<>>,
                   filtered |-> <<>>, deduped |-> <<>>, final |-> <<>>] :
                    r \in InjSeqs(RawPool, MaxRaw), c \in ScoreConfigs,
                    e \in UNION {EnvsOf(c2, MaxRaw) : c2 \in ScoreConfigs}}
    /\ calc.ai \in EnvsOf(calc.config, MaxRaw)

\* scorer.py line 136: the heuristic pass of score_signals
CalcHeuristic ==
    /\ calc.op = "score" /\ calc.stage = "raw"
    /\ calc' = [calc EXCEPT
            !.stage = "heuristic",
            !.heur = score_signals_heuristic(calc.raw, calc.config)]
    /\ UNCHANGED app

\* scorer.py lines 138-157: augmentation, re-sort and intent categories
CalcScore ==
    /\ calc.op = "score" /\ calc.stage = "heuristic"
    /\ calc' = [calc EXCEPT
            !.stage = "scored",
            !.requests = Requested(calc.raw, calc.config, calc.ai),
            !.scored = score_signals(calc.raw, calc.config, calc.ai)]
    /\ UNCHANGED app

\* pipeline.py lines 90-91
CalcFilter ==
    /\ calc.op = "score" /\ calc.stage = "scored"
    /\ calc' = [calc EXCEPT !.stage = "filtered",
                            !.filtered = Filtered(calc.scored, calc.config)]
    /\ UNCHANGED app

\* pipeline.py line 94
CalcDedupe ==
    /\ calc.op = "score" /\ calc.stage = "filtered"
    /\ calc' = [calc EXCEPT !.stage = "deduped",
                            !.deduped = deduplicate(calc.filtered)]
    /\ UNCHANGED app

\* pipeline.py lines 95-96
CalcTruncate ==
    /\ calc.op = "score" /\ calc.stage = "deduped"
    /\ calc' = [calc EXCEPT !.stage = "final",
                            !.final = Take(calc.deduped, calc.config.max_leads)]
    /\ UNCHANGED app

NextScore ==
    \/ CalcHeuristic
    \/ CalcScore
    \/ CalcFilter
    \/ CalcDedupe
    \/ CalcTruncate

SpecScore == InitScore /\ [][NextScore]_vars

(***************************************************************************)
(* Properties.                                                             *)
(***************************************************************************)
\* the scan of request q is in progress: trigger_scan has set _scan_running
\* for it and its thread has not released the flag yet
Active(q) == req[q].pc = "start" \/ run[q].pc \notin {"idle", "done"}

\* the process p has left run_scan (or load_config), by return or by raise
Ended(p) == run[p].outcome # "none"

Terminal == {"completed", "failed"}

ScanIds == 1..Len(scans)

\* the upsert_lead calls of a log that returned / that raised
OkCount(log) == Cardinality({k \in 1..Len(log) : log[k].ok})

Failures(log) == Cardinality({k \in 1..Len(log) : ~log[k].ok})

HasRow(url) == \E m \in 1..Len(leads) : leads[m].url = url

OneScanAtATime ==
    /\ Cardinality({q \in Requests : req[q].pc = "set" \/ Active(q)}) <= 1
    /\ \A q \in Requests :
        /\ req[q].response = "already_running" => run[q].pc = "idle"
        /\ req[q].response = "started" <=> run[q].pc # "idle"

CheckAndSet ==
    \A q \in Requests :
        /\ req[q].pc = "check" /\ req'[q].pc # "check" =>
            IF \E r \in Requests : Active(r)
            THEN req'[q] = [pc |-> "done", response |-> "already_running"]
            ELSE req'[q].pc = "set"
        /\ req[q].pc = "set" /\ req'[q].pc # "set" =>
            req'[q].pc = "start" /\ _scan_running'
        /\ req[q].pc = "start" /\ req'[q].pc # "start" =>
            req'[q].response = "started" /\ run'[q].pc = "load_config"

\* C1: under every interleaving of start-scan requests and scan threads at
\* most one scan started by trigger_scan is in progress; a request that
\* reads the flag while no scan is in progress sets it, answers "started"
\* and starts a thread, a request that reads it while a scan is in progress
\* answers "already_running" and starts none.
C1_OneScanAtATime == []OneScanAtATime /\ [][CheckAndSet]_vars

\* C1 happens: one request was answered "started" and its scan is still in
\* progress while another request was answered "already_running"
C1_Witness ==
    \E q1, q2 \in Requests :
        /\ req[q1].response = "started"
        /\ run[q1].pc \notin {"idle", "done", "finally"}
        /\ req[q2].response = "already_running"

\* C2: the flag is set exactly while a scan started by trigger_scan is in
\* progress, and every such scan eventually reaches the end of its thread
\* with the flag released, whether run_scan returned or an exception left
\* load_config / run_scan.
C2_FlagReleased ==
    /\ [](_scan_running <=> \E q \in Requests : Active(q))
    /\ \A q \in Requests : Active(q) ~> (run[q].pc = "done")

\* C2 happens: a thread ended by an exception, and a request made after it
\* was answered "started" and has its scan in progress
C2_Witness ==
    \E q1, q2 \in Requests :
        /\ run[q1].pc = "done"
        /\ run[q1].outcome = "raised"
        /\ req[q2].response = "started"
        /\ run[q2].pc = "load_config"

ScanWrittenOnce ==
    \A n \in ScanIds :
        /\ scans[n].status \in {"running"} \cup Terminal
        /\ hist[n].writes = IF scans[n].status = "running" THEN 0 ELSE 1

TerminalStays ==
    /\ Len(scans') >= Len(scans)
    /\ \A n \in ScanIds : scans[n].status \in Terminal => scans'[n] = scans[n]

\* C3: a scan row is running until the one complete_scan call that commits
\* on it, which makes it completed or failed; after that no step of any
\* process changes the row.
C3_TerminalOnceSet == []ScanWrittenOnce /\ [][TerminalStays]_vars

\* C3 happens: a completed scan with leads and a failed scan, both of runs
\* that have ended
C3_Witness ==
    \E m, n \in ScanIds :
        /\ scans[m].status = "completed" /\ scans[m].leads_found > 0
        /\ scans[n].status = "failed"
        /\ \A p \in Procs : run[p].scan_id # 0 => Ended(p)

\* C4: no run_scan call returns or raises leaving the scan row it created
\* in status running.
C4_NoScanLeftRunning ==
    \A p \in Procs :
        Ended(p) /\ run[p].scan_id # 0 => scans[run[p].scan_id].status \in Terminal

C6_FailureReported ==
    \A p \in Procs :
        /\ Ended(p)
        /\ run[p].scan_id # 0
        /\ hist[run[p].scan_id].caught \in {"fetch", "score", "filter", "dedupe"}
        => LET n == run[p].scan_id
           IN  /\ run[p].outcome = "returned"
               /\ run[p].result = Summary(n, 0, 0, "failed", hist[n].caught)
               /\ scans[n].status = "failed"
               /\ scans[n].total_signals = 0 /\ scans[n].leads_found = 0

\* C7: no upsert_lead call of a run whose scan is failed has written a row.
C7_FailedScanHasNoLeads ==
    \A n \in ScanIds : scans[n].status = "failed" => OkCount(hist[n].log) = 0

\* C8: the total_signals of a completed scan, in its row and in the summary
\* returned, is the number of signals the fetchers returned, and its
\* leads_found is the number of upsert_lead calls of the run that returned.
C8_CompletedCounts ==
    /\ \A n \in ScanIds :
        scans[n].status = "completed" =>
            /\ scans[n].total_signals = hist[n].fetched
            /\ scans[n].leads_found = OkCount(hist[n].log)
    /\ \A p \in Procs :
        Ended(p) /\ run[p].result.status = "completed" =>
            LET n == run[p].scan_id
            IN  run[p].result = Summary(n, hist[n].fetched, OkCount(hist[n].log),
                                        "completed", "none")

\* C8 happens: a completed scan whose final list is shorter than the raw
\* signals and of whose upserts one failed and one succeeded
C8_Witness ==
    \E n \in ScanIds :
        /\ scans[n].status = "completed"
        /\ scans[n].total_signals > Len(hist[n].final)
        /\ scans[n].leads_found > 0
        /\ scans[n].leads_found < Len(hist[n].log)

InOrder(n) ==
    /\ Len(hist[n].log) <= Len(hist[n].final)
    /\ \A k \in 1..Len(hist[n].log) : hist[n].log[k].url = hist[n].final[k]

OneRowPerUrl ==
    \A m, n \in 1..Len(leads) : leads[m].url = leads[n].url => m = n

\* what a step may do to the rows of leads: none is removed, the fields
\* that are not scoring fields keep their values, except that a step of
\* the user may change status, notes and contacted_at
OnlyScoringFieldsChange ==
    /\ Len(leads') >= Len(leads)
    /\ \A n \in 1..Len(leads) :
        /\ leads'[n].url = leads[n].url
        /\ leads'[n].source = leads[n].source
        /\ leads'[n].title = leads[n].title
        /\ leads'[n].text = leads[n].text
        /\ user_updates' = user_updates =>
            /\ leads'[n].status = leads[n].status
            /\ leads'[n].notes = leads[n].notes
            /\ leads'[n].contacted_at = leads[n].contacted_at

\* C10: there is at most one lead row per url, and no upsert_lead changes
\* anything but the scoring fields of an existing row: status and notes
\* (and contacted_at) change only by update_lead.
C10_UpsertKeepsWorkflow == []OneRowPerUrl /\ [][OnlyScoringFieldsChange]_vars

\* C10 happens: upsert_lead returned for a url whose row the user had set
\* to converted with a note, and the row still holds both
C10_Witness ==
    \E n \in ScanIds, m \in 1..Len(leads) :
        \E k \in 1..Len(hist[n].log) :
            /\ hist[n].log[k].ok
            /\ hist[n].log[k].was = "converted"
            /\ hist[n].log[k].url = leads[m].url
            /\ leads[m].status = "converted"
            /\ leads[m].notes = "won"

\* the title key of a signal
KeyOf(s) == _normalize(s.title)

\* the signals deduplicate has visited so far
Visited == SubSeq(calc.signals, 1, calc.n)

\* C11: after every iteration of deduplicate's loop, and so at its end, no
\* two signals of the output have the same non-empty normalized title.
C11_OnePerKey ==
    calc.op = "deduplicate" =>
        \A i, j \in 1..Len(calc.st.deduped) :
            /\ KeyOf(calc.st.deduped[i]) # <<>>
            /\ KeyOf(calc.st.deduped[i]) = KeyOf(calc.st.deduped[j])
            => i = j

\* C11 happens: the call has ended on four signals, three of them with the
\* same non-empty key, and its output holds two signals
C11_Witness ==
    /\ calc.op = "deduplicate"
    /\ calc.n = 4 /\ Len(calc.signals) = 4
    /\ Cardinality({i \in 1..4 : KeyOf(calc.signals[i]) = <<"a", "b">>}) = 3
    /\ Len(calc.st.deduped) = 2

\* the highest score among the visited signals with the key of s
BestScore(s) ==
    LET same == {i \in 1..calc.n : KeyOf(calc.signals[i]) = KeyOf(s)}
    IN  CHOOSE m \in {calc.signals[i].score : i \in same} :
            \A i \in same : calc.signals[i].score <= m

\* C12: for every non-empty key among the visited signals the output holds
\* a signal of that key with the highest score of the key, in whatever
\* order the signals arrive (every order of every list is a behaviour).
C12_BestOfKeyKept ==
    calc.op = "deduplicate" =>
        \A i \in 1..calc.n :
            KeyOf(calc.signals[i]) # <<>> =>
                \E j \in 1..Len(calc.st.deduped) :
                    /\ KeyOf(calc.st.deduped[j]) = KeyOf(calc.signals[i])
                    /\ calc.st.deduped[j].score = BestScore(calc.signals[i])

\* C12 happens: scores 4.0 then 7.0 of one key arrived in that order, with
\* a signal of another key, and the output is the 7.0 signal and the other
C12_Witness ==
    /\ calc.op = "deduplicate"
    /\ calc.n = 3 /\ Len(calc.signals) = 3
    /\ calc.signals[1].id = "reddit-1" /\ calc.signals[2].id = "hn-1"
    /\ calc.signals[3].id = "twitter-1"
    /\ Len(calc.st.deduped) = 2
    /\ calc.st.deduped[1].score = 70

\* a is b with some elements left out
RECURSIVE IsSubseq(_, _)
IsSubseq(a, b) ==
    IF a = <<>> THEN TRUE
    ELSE IF b = <<>> THEN FALSE
    ELSE IF Head(a) = Head(b) THEN IsSubseq(Tail(a), Tail(b))
    ELSE IsSubseq(a, Tail(b))

DescendingBy(xs, Key(_)) ==
    \A i, j \in 1..Len(xs) : i < j => Key(xs[i]) >= Key(xs[j])

\* C20: after every iteration the output of deduplicate is a subsequence of
\* the signals visited, also after a replacement, and an input in
\* descending order of score gives an output in descending order of score.
C20_OutputIsSubsequence ==
    calc.op = "deduplicate" =>
        /\ IsSubseq(calc.st.deduped, Visited)
        /\ DescendingBy(Visited, ScoreOf) => DescendingBy(calc.st.deduped, ScoreOf)

\* C20 happens: the 4.0 signal of a key, a signal of another key, then the
\* 7.0 signal of the first key: the winner was appended after the other
C20_Witness ==
    /\ calc.op = "deduplicate"
    /\ calc.n = 3 /\ Len(calc.signals) = 3
    /\ calc.signals[1].id = "reddit-1" /\ calc.signals[2].id = "twitter-1"
    /\ calc.signals[3].id = "hn-1"
    /\ Len(calc.st.deduped) = 2
    /\ calc.st.deduped[1].id = "twitter-1" /\ calc.st.deduped[2].id = "hn-1"

(***************************************************************************)
(* Claims about the scoring chain (SpecScore).                             *)
(***************************************************************************)
ElemsOf(xs) == {xs[i] : i \in DOMAIN xs}

IdsOf(xs) == {xs[i].id : i \in DOMAIN xs}

\* the heuristic pass has run
HeuristicDone == calc.op = "score" /\ calc.stage # "raw"

\* C17: every heuristic-scored signal has a composite score in [1, 10] and
\* each of its four subscores (keyword, pain point, recency, engagement) in
\* [0, 10], whatever the weights, points and num_comments.  Scores are in
\* tenths.
C17_ScoresInRange ==
    HeuristicDone =>
        \A s \in ElemsOf(calc.heur) :
            /\ s.score \in 10..100
            /\ s.score_breakdown.keyword \in 0..100
            /\ s.score_breakdown.pain_point \in 0..100
            /\ s.score_breakdown.recency \in 0..100
            /\ s.score_breakdown.engagement \in 0..100

\* what does hold: the composite and the three other subscores are in
\* range, and the engagement subscore is at most 10
ScoresInRangeButEngagement ==
    HeuristicDone =>
        \A s \in ElemsOf(calc.heur) :
            /\ s.score \in 10..100
            /\ s.score_breakdown.keyword \in 0..100
            /\ s.score_breakdown.pain_point \in 0..100
            /\ s.score_breakdown.recency \in 0..100
            /\ s.score_breakdown.engagement <= 100

\* the lowercased title or the lowercased content of a raw signal holds one
\* of the configured negative keywords
HasNegativeKeyword(s, config) ==
    \E i \in DOMAIN config.negative_keywords :
        \/ Contains(Lower(s.title), config.negative_keywords[i])
        \/ Contains(Lower(s.content), config.negative_keywords[i])

\* the ids of the signals for which the augmenter issued a request
RequestedIds == {calc.heur[calc.requests[k]].id : k \in DOMAIN calc.requests}

\* C15: a raw signal whose lowercased title and content contain a negative
\* keyword is never in the output of score_signals, and so is never
\* augmented, filtered in, deduplicated or part of the final lead list.
C15_NegativeNeverScored ==
    calc.op = "score" =>
        \A i \in DOMAIN calc.raw :
            HasNegativeKeyword(calc.raw[i], calc.config) =>
                calc.raw[i].id \notin
                    IdsOf(calc.heur) \cup RequestedIds \cup IdsOf(calc.scored)
                    \cup IdsOf(calc.filtered) \cup IdsOf(calc.deduped)
                    \cup IdsOf(calc.final)

\* a hybrid run scored a list holding a signal with the keyword in its
\* content only, augmented another signal and kept leads
C15_Witness ==
    /\ calc.op = "score" /\ calc.stage = "final"
    /\ \E i \in DOMAIN calc.raw :
        /\ HasNegativeKeyword(calc.raw[i], calc.config)
        /\ ~Contains(Lower(calc.raw[i].title), <<"x">>)
        /\ calc.raw[i].points >= 50
    /\ calc.requests # <<>>
    /\ calc.final # <<>>

\* score_signals has returned
ScoreDone == calc.op = "score" /\ calc.stage \notin {"raw", "heuristic"}

IntentCategories == {"high_intent", "medium_intent", "low_intent", "noise"}

\* the authoritative score of a scored signal: ai_score if present, else
\* the heuristic score
Authoritative(s) == IF s.has_ai THEN s.ai_score ELSE s.score

\* C16: after score_signals every signal of its output has an
\* intent_category among high_intent, medium_intent, low_intent and noise,
\* and a signal whose category the augmenter did not set has the category
\* of its authoritative score (>= 7, >= 5, >= 3, else noise).
C16_IntentCategorySet ==
    ScoreDone =>
        \A s \in ElemsOf(calc.scored) :
            /\ s.intent_category \in IntentCategories
            /\ ~s.has_ai => s.intent_category = IntentOf(Authoritative(s))

\* what does hold: the category is never empty, and the signals the
\* augmenter did not touch have the category of their heuristic score
IntentOfUnaugmented ==
    ScoreDone =>
        \A s \in ElemsOf(calc.scored) :
            /\ s.intent_category # ""
            /\ ~s.has_ai => s.intent_category = IntentOf(s.score)

\* the min_score filter of run_scan has run
FilterDone == calc.op = "score" /\ calc.stage \in {"filtered", "deduped", "final"}

\* C18: every signal that run_scan passes on to deduplication and
\* persistence has an authoritative score (ai_score if present, else the
\* heuristic score) of at least min_score, in every scoring mode.
C18_AuthoritativeAtLeastMin ==
    FilterDone =>
        \A s \in ElemsOf(calc.filtered) \cup ElemsOf(calc.deduped) \cup ElemsOf(calc.final) :
            Authoritative(s) >= calc.config.min_score

\* what does hold: the heuristic score of every such signal is at least
\* min_score
HeuristicAtLeastMin ==
    FilterDone =>
        \A s \in ElemsOf(calc.filtered) \cup ElemsOf(calc.deduped) \cup ElemsOf(calc.final) :
            s.score >= calc.config.min_score

\* the requests were issued in descending order of heuristic score, each
\* for a signal whose heuristic score is at least ai_threshold
RequestsInOrderAboveThreshold ==
    /\ \A j, k \in DOMAIN calc.requests :
        j < k => /\ calc.requests[j] < calc.requests[k]
                 /\ calc.heur[calc.requests[j]].score >= calc.heur[calc.requests[k]].score
    /\ \A k \in DOMAIN calc.requests :
        calc.heur[calc.requests[k]].score >= calc.config.ai_threshold

\* the ids of the first max_ai_per_run signals the augmenter processed
WithinCapIds ==
    {calc.heur[calc.requests[k]].id :
        k \in {j \in DOMAIN calc.requests : j <= calc.config.max_ai_per_run}}

\* C19: in one run the augmenter issues a request for at most
\* max_ai_per_run signals, failed requests included, in descending order
\* of heuristic score and only for signals with a heuristic score of at
\* least ai_threshold; a signal beyond the cap or below the threshold has
\* no ai_score.
C19_AtMostCapRequests ==
    ScoreDone =>
        /\ Len(calc.requests) <= calc.config.max_ai_per_run
        /\ RequestsInOrderAboveThreshold
        /\ \A s \in ElemsOf(calc.scored) :
            (s.score < calc.config.ai_threshold \/ s.id \notin WithinCapIds) => ~s.has_ai

\* what does hold: at most max_ai_per_run signals get an ai_score, the
\* order and the threshold are as claimed
AtMostCapAugmented ==
    ScoreDone =>
        /\ Cardinality({s \in ElemsOf(calc.scored) : s.has_ai}) <= calc.config.max_ai_per_run
        /\ RequestsInOrderAboveThreshold
        /\ \A s \in ElemsOf(calc.scored) :
            (s.score < calc.config.ai_threshold \/ s.id \notin RequestedIds) => ~s.has_ai

\* the configuration with scoring.mode heuristic and all else the same
InHeuristicMode(config) == [config EXCEPT !.mode = "heuristic"]

\* lines 87-96 of run_scan as one function of the raw signals
FinalLeads(raw, config, ai) ==
    Take(deduplicate(Filtered(score_signals(raw, config, ai), config)),
         config.max_leads)

\* every request of the augmenter failed: it raised, or its reply held no
\* JSON object
EveryRequestFailed ==
    /\ calc.config.mode \in {"ai", "hybrid"}
    /\ \A k \in DOMAIN calc.requests : calc.ai.resp[calc.requests[k]].kind # "ok"

C13_FinalIsRankedPrefix ==
    (calc.op = "score" /\ calc.stage = "final") =>
        /\ Len(calc.final) <= calc.config.max_leads
        /\ calc.final = SubSeq(calc.deduped, 1, Min(calc.config.max_leads, Len(calc.deduped)))
        /\ DescendingBy(calc.final, Authoritative)

\* what does hold: the final list is that prefix, in descending order of
\* the key the scorer sorts by (ai_score or score)
FinalIsPrefixBySortKey ==
    (calc.op = "score" /\ calc.stage = "final") =>
        /\ Len(calc.final) <= calc.config.max_leads
        /\ calc.final = SubSeq(calc.deduped, 1, Min(calc.config.max_leads, Len(calc.deduped)))
        /\ DescendingBy(calc.final, AiOrScore)

==========================================================================
